---- MODULE Spec2Model ----
(***************************************************************************)
(* Model of the activity reception pipeline (core/actix_web/inbox.rs,      *)
(* core/axum/inbox.rs) and of the remote object resolver                   *)
(* (core/object_id.rs).  Every await point of the Rust code is one action; *)
(* the collaborators the code calls (persistence, network fetch, signature *)
(* verification, domain validation, the activity handler) are modelled by  *)
(* their contract, with their outcomes chosen nondeterministically.        *)
(***************************************************************************)
EXTENDS Integers, Sequences, FiniteSets, TLC

(* ---------------------------- bounds ----------------------------------- *)
MaxProcs == 2          \* request contexts the state is indexed by
MaxCalls == 2          \* top-level calls made on one request context
MaxTicks == 1          \* clock advances in one behaviour
Epoch == 100000        \* initial reading of the clock, in seconds
http_fetch_limit == 2  \* FederationSettings.http_fetch_limit of the context

Procs == 1..MaxProcs

(* ---------------------------- values ----------------------------------- *)
\* Option<T>: None is the empty sequence, Some(x) the one-element sequence
None == <<>>
Some(x) == <<x>>
\* Result<T, E>
Ok(v) == [ok |-> TRUE, val |-> v]
Err(e) == [ok |-> FALSE, err |-> e]

hostname == "localhost"
LocalUser == [domain |-> "localhost", path |-> "/u/l"]
RemoteA == [domain |-> "lemmy.ml", path |-> "/u/a"]
RemoteB == [domain |-> "lemmy.ml", path |-> "/u/b"]
Ids == {LocalUser, RemoteA, RemoteB}

\* FederationConfig::is_local_url
is_local_url(url) == url.domain = hostname

ACTOR_REFETCH_INTERVAL_SECONDS == 24 * 60 * 60
ACTOR_REFETCH_INTERVAL_SECONDS_DEBUG == 20

VARIABLES
  active,            \* the request contexts that run in this behaviour
  debug_assertions,  \* cfg!(debug_assertions): the build mode
  now,               \* Utc::now(), in seconds
  ticks,             \* number of clock advances so far
  db,                \* persistence: id -> Option<Kind>
  pc,                \* per context: position of the running top-level call
  op,                \* per context: the running (or last) top-level call
  calls,             \* per context: top-level calls completed
  counter,           \* per context: RequestData.request_counter
  counter0,          \* per context: request_counter when the call started
  fetched,           \* per context: fetches the remote server answered
  stack,             \* per context: frames of ObjectId::dereference*
  ret,               \* per context: result of the frame or call that returned last
  activity,          \* per context: the parsed activity (Option)
  log,               \* per context: collaborator calls of the running call, in order
  serde              \* an identifier on its way through serde_json and back

vars == <<active, debug_assertions, now, ticks, db, pc, op, calls, counter,
          counter0, fetched, stack, ret, activity, log, serde>>

(* ------------------------- collaborators ------------------------------- *)
\* ApubObject::last_refreshed_at: the object's own optional timestamp
last_refreshed_at(object) == object.last_refreshed_at

\* Actor::public_key: the key belongs to the actor it was read from
public_key(actor) == [owner |-> actor.id]

\* The representation a remote server answers a fetch with: the object and, at
\* most, a reference to the other remote object, which constructing the object
\* resolves in turn (A refers to B, B refers to A)
RemoteRepresentations(url) ==
  {[id |-> url, refs |-> r] :
     r \in {None, Some(IF url = RemoteA THEN RemoteB ELSE RemoteA)}}

\* utils::fetch_object_http: the counter is incremented by every fetch; a value
\* above the configured limit aborts the request, otherwise the remote answers.
FetchOutcomes(url, count) ==
  IF count > http_fetch_limit
    THEN {Err("RequestLimit")}
    ELSE {Ok(rep) : rep \in RemoteRepresentations(url)}
           \cup {Err("ObjectDeleted"), Err("NetworkFailure")}

\* ApubObject::read_from_apub_id: the record persistence holds, or a failure
ReadOutcomes(url) == {Ok(db[url]), Err("DbError")}

\* ApubObject::delete: removes the record, or fails and leaves it
DeleteOutcomes == {Ok("deleted"), Err("DbError")}

\* ApubObject::from_apub, once the references are resolved: the instance built
\* from the remote representation, refreshed now
Constructed(rep) == [id |-> rep.id, last_refreshed_at |-> Some(now)]

(* ------------------------- object_id.rs -------------------------------- *)
SWAPPED_INTERVALS_should_refetch_object(last_refreshed) ==
  LET update_interval == IF debug_assertions
                           THEN ACTOR_REFETCH_INTERVAL_SECONDS
                           ELSE ACTOR_REFETCH_INTERVAL_SECONDS_DEBUG
      refresh_limit == now - update_interval
  IN  last_refreshed < refresh_limit

NOT_STRICT_should_refetch_object(last_refreshed) ==
  LET update_interval == IF debug_assertions
                           THEN ACTOR_REFETCH_INTERVAL_SECONDS_DEBUG
                           ELSE ACTOR_REFETCH_INTERVAL_SECONDS
      refresh_limit == now - update_interval
  IN  last_refreshed <= refresh_limit

\* should_refetch_object (object_id.rs 169-178)
should_refetch_object(last_refreshed) ==
  LET update_interval == IF debug_assertions
                           THEN ACTOR_REFETCH_INTERVAL_SECONDS_DEBUG
                           ELSE ACTOR_REFETCH_INTERVAL_SECONDS
      refresh_limit == now - update_interval
  IN  last_refreshed < refresh_limit

\* What a frame does next: return a result, or go on at another await point
Return(r) == [then |-> "return", res |-> r]
Goto(step, db_object, res) == [then |-> step, db_object |-> db_object, res |-> res]

ABSENT_NOT_FETCHED_dereference(url, read) ==
  IF ~read.ok THEN Return(read)
  ELSE LET db_object == read.val IN
    IF is_local_url(url) \/ db_object = None
      THEN IF db_object = None THEN Return(Err("NotFound")) ELSE Return(Ok(db_object[1]))
    ELSE IF /\ last_refreshed_at(db_object[1]) # None
            /\ should_refetch_object(last_refreshed_at(db_object[1])[1])
      THEN Goto("fetch", db_object, None)
    ELSE Return(Ok(db_object[1]))

NO_LOCAL_CHECK_dereference(url, read) ==
  IF ~read.ok THEN Return(read)
  ELSE LET db_object == read.val IN
    IF db_object # None
      THEN IF /\ last_refreshed_at(db_object[1]) # None
              /\ should_refetch_object(last_refreshed_at(db_object[1])[1])
             THEN Goto("fetch", db_object, None)
             ELSE Return(Ok(db_object[1]))
    ELSE Goto("fetch", None, None)

NONE_IS_STALE_dereference(url, read) ==
  IF ~read.ok THEN Return(read)
  ELSE LET db_object == read.val IN
    IF is_local_url(url)
      THEN IF db_object = None THEN Return(Err("NotFound")) ELSE Return(Ok(db_object[1]))
    ELSE IF db_object # None
      THEN IF \/ last_refreshed_at(db_object[1]) = None
              \/ should_refetch_object(last_refreshed_at(db_object[1])[1])
             THEN Goto("fetch", db_object, None)
             ELSE Return(Ok(db_object[1]))
    ELSE Goto("fetch", None, None)

\* ObjectId::dereference after the database read (object_id.rs 81-105)
dereference(url, read) ==
  IF ~read.ok THEN Return(read)
  ELSE LET db_object == read.val IN
    IF is_local_url(url)
      THEN IF db_object = None THEN Return(Err("NotFound")) ELSE Return(Ok(db_object[1]))
    ELSE IF db_object # None
      THEN IF /\ last_refreshed_at(db_object[1]) # None
              /\ should_refetch_object(last_refreshed_at(db_object[1])[1])
             THEN Goto("fetch", db_object, None)
             ELSE Return(Ok(db_object[1]))
    ELSE Goto("fetch", None, None)

HTTP_FALLBACK_dereference_local(url, read) == dereference(url, read)

\* ObjectId::dereference_local after the database read (object_id.rs 109-118)
dereference_local(url, read) ==
  IF ~read.ok THEN Return(read)
  ELSE IF read.val = None THEN Return(Err("NotFound")) ELSE Return(Ok(read.val[1]))

STALE_ON_ERROR_dereference_from_http(res, db_object) ==
  IF res = Err("ObjectDeleted")
    THEN IF db_object # None
           THEN Goto("delete", db_object, res)
           ELSE Return(Err("ObjectGone"))
  ELSE IF ~res.ok THEN (IF db_object # None THEN Return(Ok(db_object[1])) ELSE Return(res))
  ELSE Goto("from_apub", db_object, Some(res.val))

NO_DELETE_dereference_from_http(res, db_object) ==
  IF res = Err("ObjectDeleted") THEN Return(Err("ObjectGone"))
  ELSE IF ~res.ok THEN Return(res)
  ELSE Goto("from_apub", db_object, Some(res.val))

\* ObjectId::dereference_from_http after the fetch (object_id.rs 137-148).
\* The error surfaced for a deleted object is the anyhow error
\* "Fetched remote object {} which was deleted", written ObjectGone.
dereference_from_http(res, db_object) ==
  IF res = Err("ObjectDeleted")
    THEN IF db_object # None
           THEN Goto("delete", db_object, res)
           ELSE Return(Err("ObjectGone"))
  ELSE IF ~res.ok THEN Return(res)
  ELSE Goto("from_apub", db_object, Some(res.val))

ERROR_IGNORED_after_delete(deleted) == Return(Err("ObjectGone"))

\* dereference_from_http after db_object.delete (object_id.rs 141-143)
after_delete(deleted) ==
  IF ~deleted.ok THEN Return(deleted) ELSE Return(Err("ObjectGone"))

(* ------------------------- inbound requests ---------------------------- *)
\* A Follow sent by the remote actor, one sent by the local actor, and one whose
\* id is of another domain than its actor
FollowA == [id |-> [domain |-> "lemmy.ml", path |-> "/activities/1"], actor |-> RemoteA]
FollowL == [id |-> [domain |-> "localhost", path |-> "/activities/1"], actor |-> LocalUser]
Forged == [id |-> [domain |-> "localhost", path |-> "/activities/1"], actor |-> RemoteA]
Activities == {FollowA, FollowL, Forged}

\* Request bodies: a serialized activity, or bytes that are no activity
Json(a) == [bytes |-> "json", activity |-> a]
Invalid == [bytes |-> "invalid"]
Bodies == {Json(a) : a \in Activities} \cup {Invalid}

\* serde_json::from_slice::<Activity>
from_slice(body) == IF body.bytes = "json" THEN Ok(body.activity) ELSE Err("Json")

\* The content hash a Digest header declares
Hash(body) == [sha256 |-> body]

\* signatures::sign_request: the Digest header over the body, and a Signature
\* header made with the signer's private key over method, path and digest
sign_request(method, uri, body, signer) ==
  [Digest |-> Some(Hash(body)),
   Signature |-> [signer |-> signer, method |-> method, uri |-> uri,
                  digest |-> Some(Hash(body))]]

\* signatures::verify_inbox_hash
verify_inbox_hash(digest_header, body) ==
  IF digest_header # None /\ digest_header[1] = Hash(body)
    THEN Ok("verified") ELSE Err("ActivityBodyDigestInvalid")

\* signatures::verify_signature
verify_signature(headers, method, uri, key) ==
  IF /\ headers.Signature.signer = key.owner
     /\ headers.Signature.method = method
     /\ headers.Signature.uri = uri
     /\ headers.Signature.digest = headers.Digest
    THEN Ok("verified") ELSE Err("ActivitySignatureInvalid")

\* FederationConfig::verify_url_and_domain: the activity's id and its actor
\* must be of the same domain
verify_url_and_domain(a) ==
  IF a.id.domain = a.actor.domain THEN Ok("verified") ELSE Err("DomainInvalid")

\* A request as it arrives: signed by its sender over a body and a path, then
\* possibly altered on the way (body, path or method replaced, Digest dropped)
Tampers == {"none", "body", "uri", "method", "no_digest"}

Tamper(signed, body, how) ==
  [signed EXCEPT
     !.body = IF how = "body" THEN body ELSE @,
     !.uri = IF how = "uri" THEN "/wrong" ELSE @,
     !.method = IF how = "method" THEN "GET" ELSE @,
     !.headers = IF how = "no_digest" THEN [@ EXCEPT !.Digest = None] ELSE @]

Signed(body, signer) ==
  [body |-> body, method |-> "POST", uri |-> "/inbox",
   headers |-> sign_request("POST", "/inbox", body, signer)]

Requests ==
  {Tamper(Signed(Json(FollowA), s), Invalid, how) :
     s \in {RemoteA, RemoteB}, how \in {"none", "uri"}}
  \cup {Tamper(Signed(Json(FollowA), RemoteA), Invalid, how) :
          how \in {"method", "body", "no_digest"}}
  \cup {Signed(Json(FollowL), LocalUser), Signed(Json(Forged), RemoteA),
        Signed(Invalid, RemoteA),
        Tamper(Signed(Invalid, RemoteA), Json(FollowA), "body")}

(* ------------------------- inbox.rs ------------------------------------ *)
\* What receive_activity does next: return, or await a collaborator
Done(called, r) == [then |-> "done", called |-> called, res |-> r]
Await(what, called, a) == [then |-> what, called |-> called, activity |-> a]

\* actix_web::inbox::receive_activity up to the actor's resolution
\* (actix_web/inbox.rs 31-37): digest, parse, domain check
PARSE_FIRST_actix_web_verify(request) ==
  LET hash == verify_inbox_hash(request.headers.Digest, request.body)
      parsed == from_slice(request.body)
      domain == verify_url_and_domain(parsed.val)
  IN IF ~parsed.ok THEN Done(<<"from_slice">>, parsed)
     ELSE IF ~hash.ok THEN Done(<<"from_slice", "verify_inbox_hash">>, hash)
     ELSE IF ~domain.ok
       THEN Done(<<"from_slice", "verify_inbox_hash", "verify_url_and_domain">>, domain)
     ELSE Await("dereference",
                <<"from_slice", "verify_inbox_hash", "verify_url_and_domain">>,
                Some(parsed.val))

DIGEST_UNCHECKED_actix_web_verify(request) ==
  LET parsed == from_slice(request.body)
      domain == verify_url_and_domain(parsed.val)
  IN IF ~parsed.ok THEN Done(<<"verify_inbox_hash", "from_slice">>, parsed)
     ELSE IF ~domain.ok
       THEN Done(<<"verify_inbox_hash", "from_slice", "verify_url_and_domain">>, domain)
     ELSE Await("dereference",
                <<"verify_inbox_hash", "from_slice", "verify_url_and_domain">>,
                Some(parsed.val))

actix_web_verify(request) ==
  LET hash == verify_inbox_hash(request.headers.Digest, request.body)
      parsed == from_slice(request.body)
      domain == verify_url_and_domain(parsed.val)
  IN IF ~hash.ok THEN Done(<<"verify_inbox_hash">>, hash)
     ELSE IF ~parsed.ok THEN Done(<<"verify_inbox_hash", "from_slice">>, parsed)
     ELSE IF ~domain.ok
       THEN Done(<<"verify_inbox_hash", "from_slice", "verify_url_and_domain">>, domain)
     ELSE Await("dereference",
                <<"verify_inbox_hash", "from_slice", "verify_url_and_domain">>,
                Some(parsed.val))

\* ... from the actor's resolution to the handler's call (actix_web/inbox.rs
\* 35-47): the resolver's error returned, the signature verified
SIGNATURE_IGNORED_actix_web_verify_signature(request, act, actor) ==
  IF ~actor.ok THEN Done(<<>>, actor)
  ELSE Await("receive", <<"verify_signature">>, act)

SIGNED_PATH_actix_web_verify_signature(request, act, actor) ==
  LET sig == verify_signature(request.headers, request.method,
                              request.headers.Signature.uri, public_key(actor.val))
  IN IF ~actor.ok THEN Done(<<>>, actor)
     ELSE IF ~sig.ok THEN Done(<<"verify_signature">>, sig)
     ELSE Await("receive", <<"verify_signature">>, act)

actix_web_verify_signature(request, act, actor) ==
  LET sig == verify_signature(request.headers, request.method, request.uri,
                              public_key(actor.val))
  IN IF ~actor.ok THEN Done(<<>>, actor)
     ELSE IF ~sig.ok THEN Done(<<"verify_signature">>, sig)
     ELSE Await("receive", <<"verify_signature">>, act)

\* HttpResponse::Ok().finish()
HttpResponseOk == [HttpResponse |-> "Ok"]

\* ... and after the handler returned (actix_web/inbox.rs 47-48)
actix_web_received(handled) ==
  IF ~handled.ok THEN Done(<<>>, handled) ELSE Done(<<>>, Ok(HttpResponseOk))

\* actix_web::inbox::receive_activity (actix_web/inbox.rs 15-49), from the
\* await point `at`, `awaited` being what the awaited collaborator returned
actix_web_receive_activity(at, request, act, awaited) ==
  IF at = "start" THEN actix_web_verify(request)
  ELSE IF at = "dereference" THEN actix_web_verify_signature(request, act, awaited)
  ELSE actix_web_received(awaited)

PARSE_FIRST_axum_verify(activity_data) == PARSE_FIRST_actix_web_verify(activity_data)

\* axum::inbox::receive_activity up to the actor's resolution (axum/inbox.rs
\* 30-36); the request is the ActivityData the extractor built
axum_verify(activity_data) ==
  LET hash == verify_inbox_hash(activity_data.headers.Digest, activity_data.body)
      parsed == from_slice(activity_data.body)
      domain == verify_url_and_domain(parsed.val)
  IN IF ~hash.ok THEN Done(<<"verify_inbox_hash">>, hash)
     ELSE IF ~parsed.ok THEN Done(<<"verify_inbox_hash", "from_slice">>, parsed)
     ELSE IF ~domain.ok
       THEN Done(<<"verify_inbox_hash", "from_slice", "verify_url_and_domain">>, domain)
     ELSE Await("dereference",
                <<"verify_inbox_hash", "from_slice", "verify_url_and_domain">>,
                Some(parsed.val))

\* ... from the actor's resolution to the handler's call (axum/inbox.rs 34-46)
axum_verify_signature(activity_data, act, actor) ==
  LET sig == verify_signature(activity_data.headers, activity_data.method,
                              activity_data.uri, public_key(actor.val))
  IN IF ~actor.ok THEN Done(<<>>, actor)
     ELSE IF ~sig.ok THEN Done(<<"verify_signature">>, sig)
     ELSE Await("receive", <<"verify_signature">>, act)

\* The unit value ()
Unit == [unit |-> "()"]

\* ... and after the handler returned (axum/inbox.rs 46-47)
axum_received(handled) ==
  IF ~handled.ok THEN Done(<<>>, handled) ELSE Done(<<>>, Ok(Unit))

\* axum::inbox::receive_activity (axum/inbox.rs 15-48)
axum_receive_activity(at, activity_data, act, awaited) ==
  IF at = "start" THEN axum_verify(activity_data)
  ELSE IF at = "dereference" THEN axum_verify_signature(activity_data, act, awaited)
  ELSE axum_received(awaited)

Adapters == {"actix_web", "axum"}

receive_activity(adapter, at, request, act, awaited) ==
  IF adapter = "actix_web"
    THEN actix_web_receive_activity(at, request, act, awaited)
    ELSE axum_receive_activity(at, request, act, awaited)

(* ------------------------- serde --------------------------------------- *)
\* A URL as text, component by component: scheme, host, port and path as they
\* are written. A text with no scheme is a relative reference, no URL.
UrlStrings ==
  [scheme : {"http", "HTTP", "https"},
   host : {"test.com", "Test.COM", "lemmy.ml"},
   port : {None, Some(80), Some(443), Some(8080)},
   path : {"", "/", "/u/nutomic"}]
  \cup {[scheme |-> "", host |-> "", port |-> None, path |-> "/u/nutomic"]}

to_ascii_lowercase(t) ==
  CASE t = "HTTP" -> "http"
    [] t = "Test.COM" -> "test.com"
    [] OTHER -> t

default_port(scheme) ==
  IF scheme = "http" THEN Some(80) ELSE IF scheme = "https" THEN Some(443) ELSE None

\* Url::parse: the scheme and the host are lower-cased, the scheme's default
\* port is dropped, the empty path of a special scheme becomes "/"
parse(input) ==
  IF input.scheme = "" THEN Err("RelativeUrlWithoutBase")
  ELSE LET scheme == to_ascii_lowercase(input.scheme) IN
    Ok([serialization |->
          [scheme |-> scheme,
           host |-> to_ascii_lowercase(input.host),
           port |-> IF input.port = default_port(scheme) THEN None ELSE input.port,
           path |-> IF input.path = "" THEN "/" ELSE input.path]])

\* Url::as_str
as_str(url) == url.serialization

\* ObjectId::new (object_id.rs 58-63)
new(url) == [url |-> url]

\* A JSON value: a string, or a string wrapped in a one-element array
JsonString(text) == [json |-> "string", text |-> text]
JsonArray(text) == [json |-> "array", text |-> text]

WRAPPED_to_string(id) == JsonArray(as_str(id.url))

\* serde_json::to_string(&ObjectId): the derive is transparent, so the Url is
\* serialized, as the string as_str gives (object_id.rs 45-47)
to_string(id) == JsonString(as_str(id.url))

\* serde_json::from_str::<ObjectId>: a string that Url::parse accepts
from_str(value) ==
  IF value.json # "string" THEN Err("invalid type")
  ELSE LET url == parse(value.text) IN
    IF url.ok THEN Ok(new(url.val)) ELSE url

\* The JSON values an identifier is deserialized from
SerdeInputs == {JsonString(t) : t \in UrlStrings} \cup {JsonArray(t) : t \in UrlStrings}

(* ------------------------- state machine ------------------------------- *)
Front(s) == SubSeq(s, 1, Len(s) - 1)
Top(p) == stack[p][Len(stack[p])]
Frame(fn, url) == [fn |-> fn, id |-> url, at |-> "read", db_object |-> None, res |-> None]
Event(fn, depth) == [fn |-> fn, depth |-> depth]
Events(called) == [i \in 1..Len(called) |-> Event(called[i], 0)]

Interval == IF debug_assertions
              THEN ACTOR_REFETCH_INTERVAL_SECONDS_DEBUG
              ELSE ACTOR_REFETCH_INTERVAL_SECONDS

\* Last-refreshed timestamps persistence may hold at the start: none (a locally
\* authored object), or one at and one beyond the staleness threshold
SeedTimestamps == {None, Some(Epoch - Interval), Some(Epoch - Interval - 1)}

Seeds(url, stamps) == {None} \cup {Some([id |-> url, last_refreshed_at |-> t]) : t \in stamps}

Init ==
  /\ active = {1}
  /\ debug_assertions \in BOOLEAN
  /\ now = Epoch
  /\ ticks = 0
  /\ \E l \in Seeds(LocalUser, {Some(Epoch - Interval - 1)}),
        a \in Seeds(RemoteA, SeedTimestamps),
        b \in Seeds(RemoteB, {}) :
       db = [i \in Ids |-> IF i = LocalUser THEN l ELSE IF i = RemoteA THEN a ELSE b]
  /\ pc = [p \in Procs |-> "idle"]
  /\ op = [p \in Procs |-> [fn |-> "none"]]
  /\ calls = [p \in Procs |-> 0]
  /\ counter = [p \in Procs |-> 0]
  /\ counter0 = [p \in Procs |-> 0]
  /\ fetched = [p \in Procs |-> 0]
  /\ stack = [p \in Procs |-> <<>>]
  /\ ret = [p \in Procs |-> Err("none")]
  /\ activity = [p \in Procs |-> None]
  /\ log = [p \in Procs |-> <<>>]
  /\ serde = [pc |-> "off", input |-> JsonString(CHOOSE t \in UrlStrings : t.scheme = ""),
              id |-> None, out |-> None, id2 |-> None]

\* Time passes between two calls
Tick ==
  /\ ticks < MaxTicks
  /\ \A p \in active : pc[p] = "idle"
  /\ ticks' = ticks + 1
  /\ \E d \in {1, ACTOR_REFETCH_INTERVAL_SECONDS + 1} : now' = now + d
  /\ UNCHANGED <<serde, active, debug_assertions, db, pc, op, calls, counter, counter0,
                 fetched, stack, ret, activity, log>>

CanCall(p) == p \in active /\ pc[p] = "idle" /\ calls[p] < MaxCalls

\* The caller takes the result of the call: the context is ready for the next
Complete(p) ==
  /\ p \in active /\ pc[p] = "done"
  /\ pc' = [pc EXCEPT ![p] = "idle"]
  /\ op' = [op EXCEPT ![p] = [fn |-> "none"]]
  /\ ret' = [ret EXCEPT ![p] = Err("none")]
  /\ log' = [log EXCEPT ![p] = <<>>]
  /\ activity' = [activity EXCEPT ![p] = None]
  /\ counter0' = [counter0 EXCEPT ![p] = counter[p]]
  /\ UNCHANGED <<serde, active, debug_assertions, now, ticks, db, calls, counter, fetched, stack>>

\* The running receive_activity of p goes on as `d` says
Pipeline(p, d, entries) ==
  /\ log' = [log EXCEPT ![p] = entries \o Events(d.called)]
  /\ IF d.then = "done"
       THEN /\ pc' = [pc EXCEPT ![p] = "done"]
            /\ ret' = [ret EXCEPT ![p] = d.res]
            /\ calls' = [calls EXCEPT ![p] = @ + 1]
            /\ UNCHANGED <<stack, activity>>
     ELSE IF d.then = "dereference"
       THEN /\ pc' = [pc EXCEPT ![p] = "deref"]
            /\ activity' = [activity EXCEPT ![p] = d.activity]
            /\ stack' = [stack EXCEPT ![p] = <<Frame("dereference", d.activity[1].actor)>>]
            /\ UNCHANGED <<ret, calls>>
     ELSE /\ pc' = [pc EXCEPT ![p] = "receive"]
          /\ UNCHANGED <<stack, ret, calls, activity>>

\* A request arrives: receive_activity runs up to the actor's resolution
ReceiveActivity(p) ==
  /\ CanCall(p)
  /\ \E adapter \in Adapters, request \in Requests :
       /\ op' = [op EXCEPT ![p] = [fn |-> "receive_activity", adapter |-> adapter,
                                   request |-> request]]
       /\ Pipeline(p, receive_activity(adapter, "start", request, None, Ok("none")), <<>>)
  /\ counter0' = [counter0 EXCEPT ![p] = counter[p]]
  /\ UNCHANGED <<serde, active, debug_assertions, now, ticks, db, counter, fetched>>

ROLLBACK_ActorResolved(p) ==
  /\ p \in active /\ pc[p] = "actor_resolved"
  /\ LET d == receive_activity(op[p].adapter, "dereference", op[p].request,
                                activity[p], ret[p]) IN
       /\ Pipeline(p, d, Append(log[p], [fn |-> "dereference", depth |-> 0, res |-> ret[p]]))
       /\ db' = IF ret[p].ok /\ d.then = "done"
                  THEN [db EXCEPT ![ret[p].val.id] = None] ELSE db
  /\ UNCHANGED <<serde, active, debug_assertions, now, ticks, op, counter, counter0, fetched>>

\* The actor's resolution returned: signature check, up to the handler's call
ActorResolved(p) ==
  /\ p \in active /\ pc[p] = "actor_resolved"
  /\ Pipeline(p, receive_activity(op[p].adapter, "dereference", op[p].request,
                                  activity[p], ret[p]),
              Append(log[p], [fn |-> "dereference", depth |-> 0, res |-> ret[p]]))
  /\ UNCHANGED <<serde, active, debug_assertions, now, ticks, db, op, counter, counter0, fetched>>

\* ActivityHandler::receive runs and returns
Receive(p) ==
  /\ p \in active /\ pc[p] = "receive"
  /\ \E handled \in {Ok("handled"), Err("HandlerError")} :
       Pipeline(p, receive_activity(op[p].adapter, "receive", op[p].request,
                                    activity[p], handled),
                Append(log[p], [fn |-> "receive", depth |-> 0, res |-> handled]))
  /\ UNCHANGED <<serde, active, debug_assertions, now, ticks, db, op, counter, counter0, fetched>>

RESET_COUNTER_Dereference(p) ==
  /\ CanCall(p)
  /\ \E fn \in {"dereference", "dereference_local"}, url \in Ids :
       /\ op' = [op EXCEPT ![p] = [fn |-> fn, id |-> url]]
       /\ stack' = [stack EXCEPT ![p] = <<Frame(fn, url)>>]
  /\ pc' = [pc EXCEPT ![p] = "deref"]
  /\ log' = [log EXCEPT ![p] = <<>>]
  /\ counter' = [counter EXCEPT ![p] = 0]
  /\ counter0' = [counter0 EXCEPT ![p] = 0]
  /\ activity' = [activity EXCEPT ![p] = None]
  /\ UNCHANGED <<serde, active, debug_assertions, now, ticks, db, calls, fetched, ret>>

\* A caller resolves an identifier on its context
Dereference(p) ==
  /\ CanCall(p)
  /\ \E fn \in {"dereference", "dereference_local"}, url \in Ids :
       /\ op' = [op EXCEPT ![p] = [fn |-> fn, id |-> url]]
       /\ stack' = [stack EXCEPT ![p] = <<Frame(fn, url)>>]
  /\ pc' = [pc EXCEPT ![p] = "deref"]
  /\ log' = [log EXCEPT ![p] = <<>>]
  /\ counter0' = [counter0 EXCEPT ![p] = counter[p]]
  /\ activity' = [activity EXCEPT ![p] = None]
  /\ UNCHANGED <<serde, active, debug_assertions, now, ticks, db, calls, counter, fetched, ret>>

\* The top frame of p goes on as `d` says
Resolver(p, d) ==
  IF d.then = "return"
    THEN /\ stack' = [stack EXCEPT ![p] = Front(@)]
         /\ ret' = [ret EXCEPT ![p] = d.res]
         /\ pc' = [pc EXCEPT ![p] =
                     IF Len(stack[p]) > 1 THEN @
                     ELSE IF op[p].fn = "receive_activity" THEN "actor_resolved"
                     ELSE "done"]
         /\ calls' = [calls EXCEPT ![p] =
                        IF Len(stack[p]) = 1 /\ op[p].fn # "receive_activity"
                          THEN @ + 1 ELSE @]
    ELSE /\ stack' = [stack EXCEPT ![p][Len(stack[p])] =
                        [@ EXCEPT !.at = d.then, !.db_object = d.db_object, !.res = d.res]]
         /\ UNCHANGED <<ret, pc, calls>>

InFrame(p, at) ==
  /\ p \in active /\ pc[p] = "deref" /\ stack[p] # <<>>
  /\ Top(p).at = at

\* dereference_from_db returns to dereference
DereferenceFromDb(p) ==
  /\ InFrame(p, "read") /\ Top(p).fn = "dereference"
  /\ \E read \in ReadOutcomes(Top(p).id) :
       /\ log' = [log EXCEPT ![p] = Append(@, [fn |-> "read_from_apub_id",
                    depth |-> Len(stack[p]), id |-> Top(p).id, res |-> read, now |-> now])]
       /\ Resolver(p, dereference(Top(p).id, read))
  /\ UNCHANGED <<serde, active, debug_assertions, now, ticks, db, op, counter, counter0, fetched, activity>>

\* dereference_from_db returns to dereference_local
DereferenceLocal(p) ==
  /\ InFrame(p, "read") /\ Top(p).fn = "dereference_local"
  /\ \E read \in ReadOutcomes(Top(p).id) :
       /\ log' = [log EXCEPT ![p] = Append(@, [fn |-> "read_from_apub_id",
                    depth |-> Len(stack[p]), id |-> Top(p).id, res |-> read, now |-> now])]
       /\ Resolver(p, dereference_local(Top(p).id, read))
  /\ UNCHANGED <<serde, active, debug_assertions, now, ticks, db, op, counter, counter0, fetched, activity>>

SHARED_COUNTER_FetchObjectHttp(p) ==
  /\ InFrame(p, "fetch")
  /\ counter' = [q \in Procs |-> counter[q] + 1]
  /\ \E res \in FetchOutcomes(Top(p).id, counter[p] + 1) :
       /\ log' = [log EXCEPT ![p] = Append(@, [fn |-> "fetch_object_http",
                    depth |-> Len(stack[p]), id |-> Top(p).id,
                    db_object |-> Top(p).db_object, res |-> res])]
       /\ fetched' = [fetched EXCEPT ![p] = IF res = Err("RequestLimit") THEN @ ELSE @ + 1]
       /\ Resolver(p, dereference_from_http(res, Top(p).db_object))
  /\ UNCHANGED <<serde, active, debug_assertions, now, ticks, db, op, counter0, activity>>

\* fetch_object_http returns to dereference_from_http
FetchObjectHttp(p) ==
  /\ InFrame(p, "fetch")
  /\ counter' = [counter EXCEPT ![p] = @ + 1]
  /\ \E res \in FetchOutcomes(Top(p).id, counter[p] + 1) :
       /\ log' = [log EXCEPT ![p] = Append(@, [fn |-> "fetch_object_http",
                    depth |-> Len(stack[p]), id |-> Top(p).id,
                    db_object |-> Top(p).db_object, res |-> res])]
       /\ fetched' = [fetched EXCEPT ![p] = IF res = Err("RequestLimit") THEN @ ELSE @ + 1]
       /\ Resolver(p, dereference_from_http(res, Top(p).db_object))
  /\ UNCHANGED <<serde, active, debug_assertions, now, ticks, db, op, counter0, activity>>

\* db_object.delete returns to dereference_from_http
Delete(p) ==
  /\ InFrame(p, "delete")
  /\ \E deleted \in DeleteOutcomes :
       /\ db' = IF deleted.ok THEN [db EXCEPT ![Top(p).db_object[1].id] = None] ELSE db
       /\ log' = [log EXCEPT ![p] = Append(@, [fn |-> "delete",
                    depth |-> Len(stack[p]), id |-> Top(p).db_object[1].id, res |-> deleted])]
       /\ Resolver(p, after_delete(deleted))
  /\ UNCHANGED <<serde, active, debug_assertions, now, ticks, op, counter, counter0, fetched, activity>>

\* Kind::from_apub is called on the fetched representation: it resolves the
\* reference the representation holds, if any, before it stores the instance
FromApub(p) ==
  /\ InFrame(p, "from_apub")
  /\ LET rep == Top(p).res[1] IN
       IF rep.refs = None
         THEN /\ db' = [db EXCEPT ![rep.id] = Some(Constructed(rep))]
              /\ log' = [log EXCEPT ![p] = Append(@, [fn |-> "from_apub",
                           depth |-> Len(stack[p]), id |-> rep.id,
                           res |-> Ok(Constructed(rep))])]
              /\ Resolver(p, Return(Ok(Constructed(rep))))
         ELSE /\ stack' = [stack EXCEPT ![p] =
                             Append([@ EXCEPT ![Len(@)].at = "nested"],
                                    Frame("dereference", rep.refs[1]))]
              /\ UNCHANGED <<db, log, ret, pc, calls>>
  /\ UNCHANGED <<serde, active, debug_assertions, now, ticks, op, counter, counter0, fetched, activity>>

\* The reference's resolution returned to from_apub, which returns
FromApubNested(p) ==
  /\ InFrame(p, "nested")
  /\ LET rep == Top(p).res[1]
         res == IF ret[p].ok THEN Ok(Constructed(rep)) ELSE ret[p] IN
       /\ db' = IF res.ok THEN [db EXCEPT ![rep.id] = Some(res.val)] ELSE db
       /\ log' = [log EXCEPT ![p] = Append(@, [fn |-> "from_apub",
                    depth |-> Len(stack[p]), id |-> rep.id, res |-> res])]
       /\ Resolver(p, Return(res))
  /\ UNCHANGED <<serde, active, debug_assertions, now, ticks, op, counter, counter0, fetched, activity>>

Step(p) ==
  \/ ActorResolved(p)
  \/ Receive(p)
  \/ DereferenceFromDb(p)
  \/ DereferenceLocal(p)
  \/ FetchObjectHttp(p)
  \/ Delete(p)
  \/ FromApub(p)
  \/ FromApubNested(p)
  \/ Complete(p)

Next ==
  \/ Tick
  \/ \E p \in Procs : ReceiveActivity(p)
  \/ \E p \in Procs : Dereference(p)
  \/ \E p \in Procs : Step(p)

Spec == Init /\ [][Next]_vars

\* A call that was started runs on: the executor polls every pending future
FairSpec == Spec /\ \A p \in Procs : WF_vars(Step(p))

\* Requests that run concurrently, each on its own context, against the one
\* persistence, in a debug build: every context is in use and has one call to
\* make, and RemoteA is absent or stale
ConcInit ==
  /\ active = Procs
  /\ debug_assertions = TRUE
  /\ now = Epoch
  /\ ticks = 0
  /\ \E a \in Seeds(RemoteA, {Some(Epoch - Interval - 1)}) :
       db = [i \in Ids |-> IF i = RemoteA THEN a ELSE None]
  /\ pc = [p \in Procs |-> "idle"]
  /\ op = [p \in Procs |-> [fn |-> "none"]]
  /\ calls = [p \in Procs |-> MaxCalls - 1]
  /\ counter = [p \in Procs |-> 0]
  /\ counter0 = [p \in Procs |-> 0]
  /\ fetched = [p \in Procs |-> 0]
  /\ stack = [p \in Procs |-> <<>>]
  /\ ret = [p \in Procs |-> Err("none")]
  /\ activity = [p \in Procs |-> None]
  /\ log = [p \in Procs |-> <<>>]
  /\ serde = [pc |-> "off", input |-> JsonString(CHOOSE t \in UrlStrings : t.scheme = ""),
              id |-> None, out |-> None, id2 |-> None]

ConcSpec == ConcInit /\ [][Next]_vars

\* An identifier is deserialized from JSON, serialized, and deserialized again
\* (object_id.rs 247-257); no request runs meanwhile
SerdeInit ==
  /\ active = {}
  /\ debug_assertions = FALSE
  /\ now = Epoch
  /\ ticks = 0
  /\ db = [i \in Ids |-> None]
  /\ pc = [p \in Procs |-> "idle"]
  /\ op = [p \in Procs |-> [fn |-> "none"]]
  /\ calls = [p \in Procs |-> 0]
  /\ counter = [p \in Procs |-> 0]
  /\ counter0 = [p \in Procs |-> 0]
  /\ fetched = [p \in Procs |-> 0]
  /\ stack = [p \in Procs |-> <<>>]
  /\ ret = [p \in Procs |-> Err("none")]
  /\ activity = [p \in Procs |-> None]
  /\ log = [p \in Procs |-> <<>>]
  /\ \E input \in SerdeInputs :
       serde = [pc |-> "input", input |-> input, id |-> None, out |-> None, id2 |-> None]

Unrelated == <<active, debug_assertions, now, ticks, db, pc, op, calls, counter,
               counter0, fetched, stack, ret, activity, log>>

Deserialize ==
  /\ serde.pc = "input"
  /\ LET r == from_str(serde.input) IN
       serde' = IF r.ok THEN [serde EXCEPT !.pc = "id", !.id = Some(r.val)]
                ELSE [serde EXCEPT !.pc = "rejected"]
  /\ UNCHANGED Unrelated

Serialize ==
  /\ serde.pc = "id"
  /\ serde' = [serde EXCEPT !.pc = "json", !.out = Some(to_string(serde.id[1]))]
  /\ UNCHANGED Unrelated

DeserializeAgain ==
  /\ serde.pc = "json"
  /\ serde' = [serde EXCEPT !.pc = "done", !.id2 = Some(from_str(serde.out[1]))]
  /\ UNCHANGED Unrelated

SerdeNext == Deserialize \/ Serialize \/ DeserializeAgain

SerdeSpec == SerdeInit /\ [][SerdeNext]_vars

(* ------------------------- observations -------------------------------- *)
Indices(p) == 1..Len(log[p])
\* The collaborator calls named fn that the running call of p has made
Called(p, fn) == {i \in Indices(p) : log[p][i].fn = fn}
\* Those made by the dereference the caller itself started (not by a nested one)
CalledByOuter(p, fn) == {i \in Called(p, fn) : log[p][i].depth = 1}
\* Calls made while an identifier is resolved: persistence and network
ResolverCalls == {"read_from_apub_id", "fetch_object_http", "delete", "from_apub"}

Receiving(p) == op[p].fn = "receive_activity"
Resolving(p) == op[p].fn = "dereference"
ReceiveDone(p) == Receiving(p) /\ pc[p] = "done"

\* The step of receive_activity a logged call belongs to
StepOf(e) ==
  CASE e.fn = "verify_inbox_hash" -> 1
    [] e.fn = "from_slice" -> 2
    [] e.fn = "verify_url_and_domain" -> 3
    [] e.fn \in ResolverCalls \cup {"dereference"} -> 4
    [] e.fn = "verify_signature" -> 5
    [] e.fn = "receive" -> 6

\* The outcome of each step of the running receive_activity, as its
\* collaborator decides it
HashOutcome(p) == verify_inbox_hash(op[p].request.headers.Digest, op[p].request.body)
ParseOutcome(p) == from_slice(op[p].request.body)
DomainOutcome(p) == verify_url_and_domain(ParseOutcome(p).val)
ActorOutcome(p) == log[p][CHOOSE i \in Called(p, "dereference") : TRUE].res
SignatureOutcome(p) ==
  verify_signature(op[p].request.headers, op[p].request.method, op[p].request.uri,
                   public_key(ActorOutcome(p).val))
HandlerOutcome(p) == log[p][CHOOSE i \in Called(p, "receive") : TRUE].res
LastStep(p) == StepOf(log[p][Len(log[p])])

\* The result of the dereference the caller started, once it has returned
DerefReturned(p) ==
  \/ Resolving(p) /\ pc[p] = "done"
  \/ Receiving(p) /\ Called(p, "dereference") # {}
DerefResult(p) == IF Receiving(p) THEN ActorOutcome(p) ELSE ret[p]
\* ... the identifier it resolves, and what its database read returned
DerefId(p) == IF Receiving(p) THEN activity[p][1].actor ELSE op[p].id
OuterRead(p) == log[p][CHOOSE i \in CalledByOuter(p, "read_from_apub_id") : TRUE]
OuterFetch(p) == log[p][CHOOSE i \in CalledByOuter(p, "fetch_object_http") : TRUE]
OuterFromApub(p) == log[p][CHOOSE i \in CalledByOuter(p, "from_apub") : TRUE]
HasRead(p) ==
  /\ op[p].fn \in {"dereference", "dereference_local"} \/ (Receiving(p) /\ activity[p] # None)
  /\ CalledByOuter(p, "read_from_apub_id") # {}

(* ------------------------- claims -------------------------------------- *)
\* C1: receive_activity runs digest verification, parse, domain check, actor
\* resolution, signature verification and dispatch in this order; it returns the
\* error of the first step that fails (the resolver's and the handler's error
\* unchanged), and calls no collaborator after a step has failed.
C1_StepsInOrderFailFast ==
  \A p \in Procs : Receiving(p) =>
    /\ \A i, j \in Indices(p) : i < j => StepOf(log[p][i]) <= StepOf(log[p][j])
    /\ \A i, j \in Indices(p) :
         (i # j /\ StepOf(log[p][i]) = StepOf(log[p][j])) => StepOf(log[p][i]) = 4
    /\ \A i \in Indices(p) : \A k \in 1..(StepOf(log[p][i]) - 1) :
         \E j \in 1..i : StepOf(log[p][j]) = k
    /\ pc[p] = "done" =>
         IF ~HashOutcome(p).ok THEN ret[p] = HashOutcome(p) /\ LastStep(p) = 1
         ELSE IF ~ParseOutcome(p).ok THEN ret[p] = ParseOutcome(p) /\ LastStep(p) = 2
         ELSE IF ~DomainOutcome(p).ok THEN ret[p] = DomainOutcome(p) /\ LastStep(p) = 3
         ELSE IF ~ActorOutcome(p).ok THEN ret[p] = ActorOutcome(p) /\ LastStep(p) = 4
         ELSE IF ~SignatureOutcome(p).ok
           THEN ret[p] = SignatureOutcome(p) /\ LastStep(p) = 5
         ELSE IF ~HandlerOutcome(p).ok THEN ret[p] = HandlerOutcome(p) /\ LastStep(p) = 6
         ELSE ret[p].ok /\ LastStep(p) = 6

\* A run that got past the first three steps and failed at a later one
C1_Witness ==
  \E p \in Procs :
    /\ ReceiveDone(p) /\ ~ret[p].ok /\ LastStep(p) = 4
    /\ ret[p] = Err("RequestLimit")

\* C2: the handler is invoked at most once, and exactly once iff the digest
\* check, the parse, the domain check, the resolution of the activity's own actor
\* and the signature check against that actor's key all succeeded;
\* receive_activity succeeds iff the handler was invoked and returned no error.
C2_HandlerOnceIffVerified ==
  \A p \in Procs : Receiving(p) =>
    /\ Cardinality(Called(p, "receive")) <= 1
    /\ Called(p, "receive") # {} =>
         /\ HashOutcome(p).ok /\ ParseOutcome(p).ok /\ DomainOutcome(p).ok
         /\ ActorOutcome(p).ok
         /\ ActorOutcome(p).val.id = ParseOutcome(p).val.actor
         /\ SignatureOutcome(p).ok
    /\ pc[p] = "done" =>
         /\ Called(p, "receive") # {} <=>
              /\ HashOutcome(p).ok /\ ParseOutcome(p).ok /\ DomainOutcome(p).ok
              /\ Called(p, "dereference") # {} /\ ActorOutcome(p).ok
              /\ SignatureOutcome(p).ok
         /\ ret[p].ok <=> (Called(p, "receive") # {} /\ HandlerOutcome(p).ok)

\* A correctly signed, well-formed activity of a resolvable actor was received
C2_Witness ==
  \E p \in Procs :
    /\ ReceiveDone(p) /\ ret[p].ok
    /\ op[p].request = Signed(Json(FollowA), RemoteA)
    /\ Cardinality(Called(p, "receive")) = 1

\* C3: a request whose body does not match its Digest header fails with
\* ActivityBodyDigestInvalid, whether or not the body parses and the signature
\* is valid; nothing is parsed, resolved, verified or dispatched.
C3_DigestMismatchStopsAll ==
  \A p \in Procs :
    (Receiving(p) /\ op[p].request.headers.Digest # Some(Hash(op[p].request.body))) =>
      /\ pc[p] = "done"
      /\ ret[p] = Err("ActivityBodyDigestInvalid")
      /\ \A i \in Indices(p) : log[p][i].fn = "verify_inbox_hash"
      /\ stack[p] = <<>> /\ activity[p] = None

\* The body of a validly signed request was replaced by a parseable one
C3_Witness ==
  \E p \in Procs :
    /\ ReceiveDone(p)
    /\ op[p].request = Tamper(Signed(Invalid, RemoteA), Json(FollowA), "body")
    /\ ret[p] = Err("ActivityBodyDigestInvalid")

\* C4: a validly signed request whose body and digest are unchanged but whose
\* target path differs from the signed one passes the digest, parse and domain
\* steps and has its actor resolved; the signature check against the resolved
\* actor then fails with ActivitySignatureInvalid and the handler is not invoked.
C4_PathIsSigned ==
  \A p \in Procs :
    (/\ Receiving(p)
     /\ \E b \in Bodies, s \in Ids :
          /\ b.bytes = "json" /\ b.activity.actor = s
          /\ verify_url_and_domain(b.activity).ok
          /\ op[p].request = Tamper(Signed(b, s), b, "uri")) =>
      /\ HashOutcome(p).ok /\ ParseOutcome(p).ok /\ DomainOutcome(p).ok
      /\ Called(p, "receive") = {}
      /\ pc[p] = "done" =>
           /\ ~ret[p].ok
           /\ Called(p, "dereference") # {}
           /\ ActorOutcome(p).ok =>
                /\ Called(p, "verify_signature") # {}
                /\ ret[p] = Err("ActivitySignatureInvalid")
           /\ ~ActorOutcome(p).ok => ret[p] = ActorOutcome(p)

\* The replayed request reached the signature check and was rejected there
C4_Witness ==
  \E p \in Procs :
    /\ ReceiveDone(p)
    /\ op[p].request = Tamper(Signed(Json(FollowA), RemoteA), Invalid, "uri")
    /\ Called(p, "verify_signature") # {}
    /\ ret[p] = Err("ActivitySignatureInvalid")

\* The running call of p resolves an identifier through dereference
Dereferencing(p) == Resolving(p) \/ (Receiving(p) /\ activity[p] # None)
\* ... and its database read found this object
ReadFound(p) == HasRead(p) /\ OuterRead(p).res.ok /\ OuterRead(p).res.val # None
Cached(p) == OuterRead(p).res.val[1]
ReadFoundNone(p) == HasRead(p) /\ OuterRead(p).res.ok /\ OuterRead(p).res.val = None
NoNetwork(p) ==
  /\ counter[p] = counter0[p]
  /\ \A i \in Indices(p) : log[p][i].fn \notin {"fetch_object_http", "delete", "from_apub"}

\* C5: for a local identifier dereference fetches nothing and leaves the fetch
\* counter unchanged; it returns NotFound when persistence has no record, and
\* the persisted instance when it has one, whatever its timestamp.
C5_LocalNeverFetched ==
  \A p \in Procs : (Dereferencing(p) /\ is_local_url(DerefId(p))) =>
    /\ NoNetwork(p)
    /\ Cardinality(Called(p, "read_from_apub_id")) <= 1
    /\ DerefReturned(p) =>
         /\ Cardinality(Called(p, "read_from_apub_id")) = 1
         /\ ReadFoundNone(p) => DerefResult(p) = Err("NotFound")
         /\ ReadFound(p) => DerefResult(p) = Ok(Cached(p))

\* A local object whose timestamp is beyond the threshold was returned as it is
C5_Witness ==
  \E p \in Procs :
    /\ Resolving(p) /\ pc[p] = "done" /\ is_local_url(op[p].id)
    /\ ret[p].ok /\ ret[p].val.last_refreshed_at # None
    /\ ret[p].val.last_refreshed_at[1] < now - Interval

\* The staleness interval as the specification states it, in seconds
StatedInterval == IF debug_assertions THEN 20 ELSE 24 * 60 * 60

\* C6: for a cached object of a non-local identifier whose timestamp is older
\* than now minus the interval (20 s in debug builds, 24 h in release builds),
\* dereference makes exactly one fetch, passes the local copy along, and when
\* the fetch succeeds returns what from_apub builds from the fetched
\* representation, never the cached object.
C6_StaleIsRefetchedOnce ==
  \A p \in Procs :
    (/\ Dereferencing(p) /\ ~is_local_url(DerefId(p)) /\ ReadFound(p)
     /\ Cached(p).last_refreshed_at # None
     /\ Cached(p).last_refreshed_at[1] < OuterRead(p).now - StatedInterval) =>
      /\ Cardinality(CalledByOuter(p, "fetch_object_http")) <= 1
      /\ CalledByOuter(p, "fetch_object_http") # {} =>
           /\ OuterFetch(p).id = DerefId(p)
           /\ OuterFetch(p).db_object = Some(Cached(p))
      /\ DerefReturned(p) =>
           /\ Cardinality(CalledByOuter(p, "fetch_object_http")) = 1
           /\ DerefResult(p) # Ok(Cached(p))
           /\ OuterFetch(p).res.ok =>
                /\ CalledByOuter(p, "from_apub") # {}
                /\ DerefResult(p) = OuterFromApub(p).res
                /\ DerefResult(p).ok =>
                     /\ DerefResult(p).val.id = DerefId(p)
                     /\ DerefResult(p).val.last_refreshed_at[1] >= OuterRead(p).now

\* A stale cached object was refetched and the fresh instance returned
C6_Witness ==
  \E p \in Procs :
    /\ Resolving(p) /\ pc[p] = "done" /\ ReadFound(p)
    /\ Cached(p).last_refreshed_at = Some(now - Interval - 1)
    /\ ret[p].ok /\ ret[p].val.last_refreshed_at = Some(now)
    /\ Cardinality(Called(p, "fetch_object_http")) = 1

\* C7: for a cached object of a non-local identifier whose timestamp is not older
\* than now minus the interval (equal to it included), dereference returns the
\* cached object: no fetch, no change of the fetch counter, no delete.
C7_FreshIsServedFromCache ==
  \A p \in Procs :
    (/\ Dereferencing(p) /\ ~is_local_url(DerefId(p)) /\ ReadFound(p)
     /\ Cached(p).last_refreshed_at # None
     /\ Cached(p).last_refreshed_at[1] >= OuterRead(p).now - Interval) =>
      /\ NoNetwork(p)
      /\ pc[p] # "deref"
      /\ pc[p] = "actor_resolved" => ret[p] = Ok(Cached(p))
      /\ DerefReturned(p) => DerefResult(p) = Ok(Cached(p))

\* A cached object refreshed exactly one interval ago was served from the cache
C7_Witness ==
  \E p \in Procs :
    /\ Resolving(p) /\ pc[p] = "done" /\ ~is_local_url(op[p].id) /\ ReadFound(p)
    /\ Cached(p).last_refreshed_at = Some(now - Interval)
    /\ ret[p] = Ok(Cached(p))

\* C8: within one request context a resolution chain that needs more fetches
\* than the fetch limit (A refers to B, which refers to A again) ends, and ends
\* in RequestLimit; no more fetches than the limit are answered under a context.
\* (Calls being finitely many, every resolution ends iff again and again no
\* context is inside one.)
C8_FetchLimitEndsChains ==
  /\ [](\A p \in Procs :
          /\ fetched[p] <= http_fetch_limit
          /\ Len(stack[p]) <= http_fetch_limit + 1
          /\ \A i \in Called(p, "fetch_object_http") :
               (counter0[p] + Cardinality({j \in Called(p, "fetch_object_http") : j <= i})
                  > http_fetch_limit) <=> log[p][i].res = Err("RequestLimit")
          /\ (DerefReturned(p) /\ \E i \in Called(p, "fetch_object_http") :
                                     log[p][i].res = Err("RequestLimit"))
               => DerefResult(p) = Err("RequestLimit"))
  /\ []<>(\A p \in Procs : pc[p] # "deref")

\* A started at the limit's edge: A was fetched, then B, and A again was refused
C8_Witness ==
  \E p \in Procs :
    /\ Resolving(p) /\ pc[p] = "done" /\ ret[p] = Err("RequestLimit")
    /\ counter0[p] = 0
    /\ \E i, j, k \in Called(p, "fetch_object_http") :
         /\ i < j /\ j < k
         /\ log[p][i].id = RemoteA /\ log[p][j].id = RemoteB /\ log[p][k].id = RemoteA
         /\ log[p][k].res = Err("RequestLimit")

\* C9: dereference_local reads persistence once and does nothing else, for local
\* and remote identifiers alike: no fetch, no refetch of a stale object, no
\* delete, the fetch counter unchanged; NotFound when there is no record, the
\* persisted instance otherwise, stale or not.
C9_LocalVariantReadsOnly ==
  \A p \in Procs : op[p].fn = "dereference_local" =>
    /\ NoNetwork(p)
    /\ Len(stack[p]) <= 1
    /\ Cardinality(Called(p, "read_from_apub_id")) <= 1
    /\ pc[p] = "done" =>
         /\ Len(log[p]) = 1 /\ log[p][1].fn = "read_from_apub_id"
         /\ log[p][1].id = op[p].id
         /\ ReadFoundNone(p) => ret[p] = Err("NotFound")
         /\ ReadFound(p) => ret[p] = Ok(Cached(p))

\* dereference_local returned a stale object of a remote identifier
C9_Witness ==
  \E p \in Procs :
    /\ op[p].fn = "dereference_local" /\ pc[p] = "done" /\ ~is_local_url(op[p].id)
    /\ ret[p].ok /\ ret[p].val.last_refreshed_at # None
    /\ ret[p].val.last_refreshed_at[1] < now - Interval

\* C10: for a non-local identifier absent from persistence dereference makes one
\* fetch; if the remote reports the object gone the call fails with ObjectGone
\* and nothing is deleted; if the remote answers, the instance from_apub builds
\* from the fetched representation is what the call returns.
C10_AbsentIsFetched ==
  \A p \in Procs :
    (Dereferencing(p) /\ ~is_local_url(DerefId(p)) /\ ReadFoundNone(p)) =>
      /\ Cardinality(CalledByOuter(p, "fetch_object_http")) <= 1
      /\ CalledByOuter(p, "delete") = {}
      /\ CalledByOuter(p, "fetch_object_http") # {} =>
           /\ OuterFetch(p).id = DerefId(p)
           /\ OuterFetch(p).db_object = None
      /\ DerefReturned(p) =>
           /\ Cardinality(CalledByOuter(p, "fetch_object_http")) = 1
           /\ OuterFetch(p).res = Err("ObjectDeleted") =>
                /\ DerefResult(p) = Err("ObjectGone")
                /\ CalledByOuter(p, "from_apub") = {}
           /\ OuterFetch(p).res.ok =>
                /\ Cardinality(CalledByOuter(p, "from_apub")) = 1
                /\ DerefResult(p) = OuterFromApub(p).res
                /\ DerefResult(p).ok => DerefResult(p).val.id = DerefId(p)

\* An absent object the remote reports gone: ObjectGone, and nothing deleted
C10_Witness ==
  \E p \in Procs :
    /\ Resolving(p) /\ pc[p] = "done" /\ ReadFoundNone(p)
    /\ CalledByOuter(p, "fetch_object_http") # {}
    /\ OuterFetch(p).res = Err("ObjectDeleted")
    /\ ret[p] = Err("ObjectGone")

\* The database read of the running dereference found a copy that is stale
StaleCached(p) ==
  /\ Dereferencing(p) /\ ~is_local_url(DerefId(p)) /\ ReadFound(p)
  /\ Cached(p).last_refreshed_at # None
  /\ Cached(p).last_refreshed_at[1] < OuterRead(p).now - Interval
OuterFetched(p) == CalledByOuter(p, "fetch_object_http") # {}
OuterDelete(p) == log[p][CHOOSE i \in CalledByOuter(p, "delete") : TRUE]

\* C11: when the refetch of a stale cached copy reports the object gone, delete
\* is called on that copy exactly once before the call returns and nothing is
\* constructed from the remote; the call fails, with ObjectGone once the copy is
\* deleted, and persistence then holds no record of the identifier. ObjectGone
\* is never surfaced for a copy the read found without that copy being deleted.
C11_GoneDeletesBeforeError ==
  \A p \in Procs :
    (StaleCached(p) /\ OuterFetched(p) /\ OuterFetch(p).res = Err("ObjectDeleted")) =>
      /\ Cardinality(CalledByOuter(p, "delete")) <= 1
      /\ CalledByOuter(p, "from_apub") = {}
      /\ CalledByOuter(p, "delete") # {} => OuterDelete(p).id = Cached(p).id
      /\ DerefReturned(p) =>
           /\ Cardinality(CalledByOuter(p, "delete")) = 1
           /\ ~DerefResult(p).ok
           /\ OuterDelete(p).res.ok =>
                /\ DerefResult(p) = Err("ObjectGone")
                /\ db[DerefId(p)] = None
           /\ DerefResult(p) = Err("ObjectGone") => OuterDelete(p).res.ok

\* The stale copy of RemoteA was deleted and the call failed with ObjectGone
C11_Witness ==
  \E p \in Procs :
    /\ Resolving(p) /\ pc[p] = "done" /\ StaleCached(p) /\ OuterFetched(p)
    /\ OuterFetch(p).res = Err("ObjectDeleted")
    /\ Cardinality(Called(p, "delete")) = 1
    /\ ret[p] = Err("ObjectGone") /\ db[op[p].id] = None

\* The position in the log of the actor's resolution having returned
ActorAt(p) == CHOOSE i \in Called(p, "dereference") : TRUE

\* C12: receive_activity undoes nothing of the actor's resolution. While it
\* runs past the resolution (signature check, dispatch) persistence and the fetch
\* counter do not change; when it has failed at one of these two steps the
\* resolved actor is still the persisted one, the counter still counts every
\* fetch of the resolution, and no persistence or network call was made since.
C12_NoRollback ==
  /\ [](\A p \in Procs :
          (ReceiveDone(p) /\ Called(p, "dereference") # {} /\ ActorOutcome(p).ok
             /\ ~ret[p].ok) =>
            /\ db[ActorOutcome(p).val.id] = Some(ActorOutcome(p).val)
            /\ counter[p] = counter0[p] + Cardinality(Called(p, "fetch_object_http"))
            /\ \A i \in Indices(p) :
                 i > ActorAt(p) => log[p][i].fn \in {"verify_signature", "receive"})
  /\ [][\A p \in Procs :
          (Receiving(p) /\ pc[p] \in {"actor_resolved", "receive"}) =>
            (db' = db /\ counter'[p] = counter[p])]_vars

\* An actor was fetched and persisted, and the signature check then failed
C12_Witness ==
  \E p \in Procs :
    /\ ReceiveDone(p) /\ ret[p] = Err("ActivitySignatureInvalid")
    /\ counter[p] > counter0[p]
    /\ CalledByOuter(p, "from_apub") # {}
    /\ db[RemoteA] = Some(ActorOutcome(p).val)
    /\ ActorOutcome(p).val.last_refreshed_at = Some(now)

\* The step taken is a network fetch of p: it adds a fetch to the calls of p
FetchStep(p) ==
  /\ Len(log'[p]) = Len(log[p]) + 1
  /\ log'[p][Len(log'[p])].fn = "fetch_object_http"

\* C13: the fetch counter of a context never decreases and is never reset,
\* whatever calls are made on the context: a network fetch adds exactly one to
\* it and every other step leaves it as it is, so that within a call it is its
\* value at the call's start plus the fetches the call has made.
C13_CounterOnlyIncreases ==
  /\ [](\A p \in Procs :
          /\ counter[p] >= counter0[p]
          /\ op[p].fn # "none" =>
               counter[p] = counter0[p] + Cardinality(Called(p, "fetch_object_http")))
  /\ [][\A p \in Procs :
          /\ counter'[p] >= counter[p]
          /\ counter'[p] = counter[p] + (IF FetchStep(p) THEN 1 ELSE 0)]_vars

\* A second call on a context that has fetched before fetched once more
C13_Witness ==
  \E p \in Procs :
    /\ pc[p] = "done" /\ calls[p] = 2
    /\ counter0[p] > 0 /\ counter[p] = counter0[p] + 1
    /\ Cardinality(Called(p, "fetch_object_http")) = 1

\* The form Url::parse brings a URL text into
NormalForm(t) ==
  /\ t.scheme \in {"http", "https"}
  /\ t.host \in {"test.com", "lemmy.ml"}
  /\ ~(t.scheme = "http" /\ t.port = Some(80))
  /\ ~(t.scheme = "https" /\ t.port = Some(443))
  /\ t.path # ""
ValidUrl(t) == t.scheme # ""

\* C14 as stated: an identifier deserialized from any valid URL string s
\* serializes to exactly s again, and serializing then deserializing gives an
\* equal identifier.
C14_RoundTripOfAnyUrl ==
  (serde.pc \in {"json", "done"} /\ serde.input.json = "string"
     /\ ValidUrl(serde.input.text)) =>
    /\ serde.out[1] = serde.input
    /\ serde.pc = "done" => serde.id2[1] = Ok(serde.id[1])

\* C14, amended: an identifier serializes as a bare JSON string and is
\* deserialized from nothing else. Deserializing a valid URL string and
\* serializing again yields the URL in normal form: exactly s when s is in that
\* form. Serializing an identifier and deserializing the result yields an
\* identifier equal to the original.
C14_RoundTripOfNormalUrl ==
  /\ serde.pc \in {"id", "json", "done"} =>
       serde.input.json = "string" /\ ValidUrl(serde.input.text)
  /\ serde.pc = "rejected" =>
       serde.input.json # "string" \/ ~ValidUrl(serde.input.text)
  /\ serde.pc \in {"json", "done"} =>
       /\ serde.out[1].json = "string"
       /\ NormalForm(serde.out[1].text)
       /\ NormalForm(serde.input.text) <=> serde.out[1] = serde.input
  /\ serde.pc = "done" => serde.id2[1] = Ok(serde.id[1])

\* The URL of test_deserialize went through and came back as it was written
C14_Witness ==
  /\ serde.pc = "done"
  /\ serde.input = JsonString([scheme |-> "http", host |-> "test.com",
                                port |-> None, path |-> "/"])
  /\ serde.out[1] = serde.input
  /\ serde.id2[1] = Ok(serde.id[1])

\* The collaborator calls receive_activity itself has made, by name and in order
OuterCalls(p) ==
  LET outer == SelectSeq(log[p], LAMBDA e : e.depth = 0)
  IN  [i \in 1..Len(outer) |-> outer[i].fn]

\* What the collaborators returned to the running receive_activity (a step that
\* was not reached returned nothing)
ActorReturned(p) ==
  IF Called(p, "dereference") # {} THEN ActorOutcome(p) ELSE Err("unreached")
HandlerReturned(p) ==
  IF Called(p, "receive") # {} THEN HandlerOutcome(p) ELSE Err("unreached")

\* The whole run of an adapter on a request, the actor's resolution returning
\* `actor` and the handler `handled`: the calls it makes and its result
Run(adapter, request, actor, handled) ==
  LET d1 == receive_activity(adapter, "start", request, None, Ok("none")) IN
  IF d1.then = "done" THEN [called |-> d1.called, res |-> d1.res]
  ELSE LET d2 == receive_activity(adapter, "dereference", request, d1.activity, actor)
           c2 == d1.called \o <<"dereference">> \o d2.called IN
    IF d2.then = "done" THEN [called |-> c2, res |-> d2.res]
    ELSE LET d3 == receive_activity(adapter, "receive", request, d2.activity, handled)
         IN  [called |-> c2 \o <<"receive">> \o d3.called, res |-> d3.res]

\* The same outcome: both succeed, or both fail with the same error
SameOutcome(r1, r2) == r1.ok = r2.ok /\ (~r1.ok => r1 = r2)

\* C15: on the request a receive_activity has run on, with the collaborators
\* returning what they returned to it, the actix-web adapter and the axum
\* adapter each make the collaborator calls that run made, in the same order,
\* and end as it ended: in success, or in the same error.
C15_AdaptersAgree ==
  \A p \in Procs : ReceiveDone(p) =>
    \A adapter \in Adapters :
      LET run == Run(adapter, op[p].request, ActorReturned(p), HandlerReturned(p))
      IN  /\ run.called = OuterCalls(p)
          /\ SameOutcome(run.res, ret[p])

\* A request the axum adapter accepted, which the actix-web adapter accepts too,
\* the success values differing in shape
C15_Witness ==
  \E p \in Procs :
    /\ ReceiveDone(p) /\ op[p].adapter = "axum" /\ ret[p] = Ok(Unit)
    /\ Run("actix_web", op[p].request, ActorReturned(p), HandlerReturned(p)).res
         = Ok(HttpResponseOk)
    /\ Len(OuterCalls(p)) = 6

\* The errors of a fetch other than the remote reporting the object gone
FetchFailures == {Err("NetworkFailure"), Err("RequestLimit")}
\* The fetches made by the dereference running at one depth of the chain
FetchesAt(p, depth) == {i \in Called(p, "fetch_object_http") : log[p][i].depth = depth}

\* C16: when the refetch of a stale cached copy fails and the object is not
\* reported gone, dereference returns that failure as it is, at once: the stale
\* copy is not returned, it is not deleted and stays persisted, nothing is
\* constructed, and the fetch is not tried again. No dereference, nested ones
\* included, makes more than one fetch.
C16_RefetchFailureSurfaced ==
  \A p \in Procs :
    /\ \A depth \in 1..(Len(log[p]) + 1) : Cardinality(FetchesAt(p, depth)) <= 1
    /\ (StaleCached(p) /\ OuterFetched(p) /\ OuterFetch(p).res \in FetchFailures) =>
         /\ CalledByOuter(p, "delete") = {}
         /\ CalledByOuter(p, "from_apub") = {}
         /\ log[p][Len(log[p])].fn \in {"fetch_object_http", "dereference"}
         /\ db[DerefId(p)] = Some(Cached(p))
         /\ pc[p] # "deref"
         /\ pc[p] = "actor_resolved" => ret[p] = OuterFetch(p).res
         /\ DerefReturned(p) => DerefResult(p) = OuterFetch(p).res

\* The refetch of a stale copy was refused by the fetch limit: the call failed
\* with RequestLimit and the stale copy is still persisted
C16_Witness ==
  \E p \in Procs :
    /\ Resolving(p) /\ pc[p] = "done" /\ StaleCached(p) /\ OuterFetched(p)
    /\ OuterFetch(p).res = Err("RequestLimit")
    /\ ret[p] = Err("RequestLimit")
    /\ db[op[p].id] = Some(Cached(p))

\* The fetches of the running call of p up to its i-th collaborator call
FetchesUpTo(p, i) == {j \in Called(p, "fetch_object_http") : j <= i}

\* C17: with requests running concurrently, each on its own context, a fetch
\* made under one context changes the fetch counter of that context alone, a
\* counter changes by the fetches of its own context only, and a fetch is
\* refused with RequestLimit exactly when the fetches made under its own context
\* exceed the limit, whatever the other contexts have fetched.
C17_ContextsIsolated ==
  /\ [](\A p \in Procs :
          /\ op[p].fn # "none" =>
               counter[p] = counter0[p] + Cardinality(Called(p, "fetch_object_http"))
          /\ \A i \in Called(p, "fetch_object_http") :
               (counter0[p] + Cardinality(FetchesUpTo(p, i)) > http_fetch_limit)
                 <=> log[p][i].res = Err("RequestLimit"))
  /\ [][\A p \in Procs :
          /\ FetchStep(p) => \A q \in Procs \ {p} : counter'[q] = counter[q]
          /\ counter'[p] # counter[p] => FetchStep(p)]_vars

\* Two concurrent requests have fetched up to the limit each, more than the
\* limit together, and neither was refused
C17_Witness ==
  \E p, q \in Procs :
    /\ p # q /\ pc[p] = "deref" /\ pc[q] = "deref"
    /\ counter[p] = http_fetch_limit /\ counter[q] = http_fetch_limit
    /\ \A r \in {p, q} : \A i \in Called(r, "fetch_object_http") : log[r][i].res.ok

\* C18: with dereference calls on one non-local identifier running
\* concurrently against the shared persistence, at the moment a call returns
\* ObjectGone for the identifier persistence holds no copy of it, a copy that
\* another request persisted since the call read persistence included.
C18_GoneMeansNoCopy ==
  [][\A p \in Procs :
       (/\ Resolving(p) /\ pc[p] = "deref" /\ pc'[p] = "done"
        /\ ret'[p] = Err("ObjectGone")
        /\ log'[p][Len(log'[p])].fn \in {"fetch_object_http", "delete"}
        /\ log'[p][Len(log'[p])].id = op[p].id) =>
         db'[op[p].id] = None]_vars

\* C19: a cached object of a non-local identifier that carries no timestamp is
\* never stale: dereference returns it with no fetch, no change of the counter
\* and no delete, however much time has passed. Whether a cached object is
\* refetched is decided by its own timestamp alone.
C19_NoTimestampNeverStale ==
  \A p \in Procs :
    (Dereferencing(p) /\ ~is_local_url(DerefId(p)) /\ ReadFound(p)) =>
      /\ Cached(p).last_refreshed_at = None =>
           /\ NoNetwork(p)
           /\ pc[p] # "deref"
           /\ pc[p] = "actor_resolved" => ret[p] = Ok(Cached(p))
           /\ DerefReturned(p) => DerefResult(p) = Ok(Cached(p))
      /\ OuterFetched(p) => StaleCached(p)
      /\ DerefReturned(p) => (OuterFetched(p) <=> StaleCached(p))

\* More than a day after the start a cached object without a timestamp was
\* returned from the cache
C19_Witness ==
  \E p \in Procs :
    /\ Resolving(p) /\ pc[p] = "done" /\ ~is_local_url(op[p].id) /\ ReadFound(p)
    /\ Cached(p).last_refreshed_at = None
    /\ OuterRead(p).now > Epoch + ACTOR_REFETCH_INTERVAL_SECONDS
    /\ ret[p] = Ok(Cached(p))

\* C20: when the refetch of a stale cached copy reports the object gone and the
\* delete of the copy fails, dereference returns the delete's error and not
\* ObjectGone, at once; the stale copy stays persisted and nothing is
\* constructed or returned.
C20_DeleteFailureSurfaced ==
  \A p \in Procs :
    (/\ StaleCached(p) /\ OuterFetched(p) /\ OuterFetch(p).res = Err("ObjectDeleted")
     /\ CalledByOuter(p, "delete") # {} /\ ~OuterDelete(p).res.ok) =>
      /\ Cardinality(CalledByOuter(p, "delete")) = 1
      /\ CalledByOuter(p, "from_apub") = {}
      /\ db[DerefId(p)] = Some(Cached(p))
      /\ pc[p] # "deref"
      /\ pc[p] = "actor_resolved" => ret[p] = OuterDelete(p).res
      /\ DerefReturned(p) =>
           /\ DerefResult(p) = OuterDelete(p).res
           /\ DerefResult(p) # Err("ObjectGone")

\* The delete of the stale copy of RemoteA failed: the call returned the
\* delete's error and the copy is still there
C20_Witness ==
  \E p \in Procs :
    /\ Resolving(p) /\ pc[p] = "done" /\ StaleCached(p) /\ OuterFetched(p)
    /\ OuterFetch(p).res = Err("ObjectDeleted")
    /\ CalledByOuter(p, "delete") # {} /\ OuterDelete(p).res = Err("DbError")
    /\ ret[p] = Err("DbError")
    /\ db[op[p].id] = Some(Cached(p))

====
